---- MODULE Spec2Model ----
(***************************************************************************)
(* Gillespie simulation of the Lotka-Volterra predator-prey model, class   *)
(* LV of Code/Lotka_Volterra/robert_gillespie.ipynb, and the notebook's    *)
(* inference session: a forward simulator `sim`, the evidence taken from   *)
(* its trace, and the conditioned simulator built from that evidence.      *)
(*                                                                         *)
(* Numbers.  Rate constants are kept in thousandths (0.005 is 5, 1.5 is    *)
(* 1500), so a hazard is in thousandths of an event per unit time; prior   *)
(* weights are kept in ten-thousandths (0.3333 is 3333).  Times and        *)
(* waiting times are whole multiples of one time quantum.                  *)
(*                                                                         *)
(* One LV instance is live at a time.  `last` is a history variable: the   *)
(* outputs and the trace of the run that came before the current one (on   *)
(* this instance, or on the forward simulator the evidence was taken       *)
(* from), with the constructor arguments of the instance that made it.     *)
(***************************************************************************)
EXTENDS Integers, Sequences, FiniteSets

VARIABLES
    transitions,  \* self.transitions
    select_hyp,   \* self.select_hyp
    initial,      \* self.initial
    times,        \* self.times
    trajectory,   \* self.trajectory
    N,            \* self.N
    ecology,      \* run: the working copy of the population
    theta_dex,    \* run: the hypothesis bound to "theta"
    theta,        \* run: theta_hypotheses[theta_dex]
    t,            \* run: the clock
    i,            \* run: the loop index
    hazards,      \* run: the hazards of the current step
    transition,   \* run: the delta of the event drawn in the current step
    pc,           \* "ready" | "loop" | "event" | "done" | "raised"
    trace,        \* env: the bindings of the current run, in bind order
    evidence,     \* env: the forced bindings (empty for the plain LV)
    conditioned,  \* whether the instance is Condition(LV, evidence)(...)
    runs,         \* number of run invocations on the live instance
    args,         \* the constructor arguments of the live instance
    last          \* history: the run before the current one

vars == <<transitions, select_hyp, initial, times, trajectory, N, ecology,
          theta_dex, theta, t, i, hazards, transition, pc, trace, evidence,
          conditioned, runs, args, last>>

-----------------------------------------------------------------------------
(* Bounds of the model *)

MaxN == 3
MaxRuns == 2
MaxWait == 1
MaxPop == 1
MaxT0 == 1

-----------------------------------------------------------------------------
(* The notebook's data *)

Species == <<"prey", "pred">>

events == <<"spawn_prey", "prey2pred", "pred_dies">>

Events == {events[k] : k \in 1..Len(events)}

Hyps == {"H1", "H2", "H3"}

Pre == <<<<1, 0>>, <<1, 1>>, <<0, 1>>>>

Post == <<<<2, 0>>, <<0, 2>>, <<0, 0>>>>

\* the matrix with the operands exchanged: what a reaction consumes minus
\* what it produces
transition_mat_consumed ==
    [s \in 1..Len(Species) |->
        [k \in 1..Len(events) |-> Pre[k][s] - Post[k][s]]]

\* np.transpose(Post - Pre): one row per species, one column per event
transition_mat ==
    [s \in 1..Len(Species) |->
        [k \in 1..Len(events) |-> Post[k][s] - Pre[k][s]]]

\* {events[k]: transition_mat[:, k]}
Transitions ==
    [e \in Events |->
        LET k == CHOOSE j \in 1..Len(events) : events[j] = e
        IN  [s \in 1..Len(Species) |-> transition_mat[s][k]]]

theta_hypotheses ==
    [h \in Hyps |->
        CASE h = "H1" -> [spawn_prey |-> 1000, prey2pred |-> 5, pred_dies |-> 600]
          [] h = "H2" -> [spawn_prey |-> 900, prey2pred |-> 4, pred_dies |-> 400]
          [] h = "H3" -> [spawn_prey |-> 1500, prey2pred |-> 10, pred_dies |-> 800]]

\* the populations of the notebook's runs
NotebookInitial == [prey |-> 50, pred |-> 100]

-----------------------------------------------------------------------------
(* The random-choice environment (the particle library's env.bind) *)

\* the step index left out of the label
Label_unindexed(kind, k) == <<kind, 0>>

\* "event_{}".format(i), "t_{}".format(i); "theta" carries no index
Label(kind, k) == <<kind, k>>

ThetaLabel == Label("theta", 0)

Sum(dist) == dist.spawn_prey + dist.prey2pred + dist.pred_dies

\* a Discrete over weights that can be normalised
WellFormed(dist) ==
    /\ \A k \in DOMAIN dist : dist[k] >= 0
    /\ \E k \in DOMAIN dist : dist[k] > 0

\* What sampling a Discrete can return.  With weights that cannot be
\* normalised (none positive, or one negative) the library's answer is not
\* defined: any key may come back, or the call may raise.
Support(dist) ==
    IF WellFormed(dist)
    THEN {k \in DOMAIN dist : dist[k] > 0}
    ELSE DOMAIN dist

\* env.bind(label, Discrete(dist)): the forced value when the label is in the
\* evidence, a sample otherwise
BindDiscrete(ev, label, dist) ==
    IF label \in DOMAIN ev THEN {ev[label]} ELSE Support(dist)

DiscreteRaises(ev, label, dist) ==
    label \notin DOMAIN ev /\ ~WellFormed(dist)

\* env.bind(label, Exponential(rate)): a waiting time >= 0
BindExponential(ev, label, rate) ==
    IF label \in DOMAIN ev THEN {ev[label]} ELSE 0..MaxWait

ExponentialRaises(ev, label, rate) ==
    label \notin DOMAIN ev /\ rate <= 0

NoEvidence == [l \in {} |-> 0]

-----------------------------------------------------------------------------
(* class LV *)

NewTimes(t0) == <<t0>>

NewTrajectory(init) == [prey |-> <<init.prey>>, pred |-> <<init.pred>>]

\* prey2pred additive in the two counts instead of multiplicative
get_hazards_additive(eco, th) ==
    [spawn_prey |-> th.spawn_prey * eco.prey,
     prey2pred  |-> th.prey2pred * (eco.prey + eco.pred),
     pred_dies  |-> th.pred_dies * eco.pred]

get_hazards(eco, th) ==
    [spawn_prey |-> th.spawn_prey * eco.prey,
     prey2pred  |-> th.prey2pred * eco.prey * eco.pred,
     pred_dies  |-> th.pred_dies * eco.pred]

\* the pinned hypothesis favoured, the other two still possible
ThetaPrior_leaky(sel) ==
    IF sel # "none"
    THEN [h \in Hyps |-> IF h = sel THEN 10000 ELSE 3333]
    ELSE [h \in Hyps |->
            CASE h = "H1" -> 10000 - 6666
              [] h = "H2" -> 3333
              [] h = "H3" -> 3333]

\* the distribution bound to "theta"
ThetaPrior(sel) ==
    IF sel # "none"
    THEN [h \in Hyps |-> IF h = sel THEN 10000 ELSE 0]
    ELSE [h \in Hyps |->
            CASE h = "H1" -> 10000 - 6666
              [] h = "H2" -> 3333
              [] h = "H3" -> 3333]

\* the bound hypothesis ignored: always the first one's parameters
SelectTheta_first(dex) == theta_hypotheses["H1"]

SelectTheta(dex) == theta_hypotheses[dex]

Max(a, b) == IF a >= b THEN a ELSE b

\* the clamp left out
Clamp_none(x) == x

Clamp(x) == Max(0, x)

\* ecology after the drawn transition, clamped
NextEcology(eco, tr) ==
    [prey |-> Clamp(eco.prey + tr[1]),
     pred |-> Clamp(eco.pred + tr[2])]

\* range(1, self.N + 1): one iteration too many
InRange_inclusive(k, n) == k <= n

\* for i in range(1, self.N)
InRange(k, n) == k < n

\* the position after the loop index moved to k
LoopPc(k, n) == IF InRange(k, n) THEN "loop" ELSE "done"

\* every label starting with 't' dropped: 'theta' and the waiting times t_i
Evidence_events_only(tr) ==
    LET kept == {k \in 1..Len(tr) : tr[k].label[1] \notin {"theta", "t"}}
    IN  [l \in {tr[k].label : k \in kept} |->
            tr[CHOOSE k \in kept : tr[k].label = l].value]

\* evidence = {k: v for k, v in trace.value.items() if k not in 'theta'}
Evidence(tr) ==
    LET kept == {k \in 1..Len(tr) : tr[k].label # ThetaLabel}
    IN  [l \in {tr[k].label : k \in kept} |->
            tr[CHOOSE k \in kept : tr[k].label = l].value]

-----------------------------------------------------------------------------
(* Construction of the forward simulator *)

Counts == (-1)..MaxPop

Initials == [prey : Counts, pred : Counts] \cup {NotebookInitial}

Selections == Hyps \cup {"none"}

NoRun == [has |-> FALSE, times |-> <<>>, trace |-> <<>>,
          trajectory |-> [prey |-> <<>>, pred |-> <<>>],
          args |-> [initial |-> NotebookInitial, N |-> 0,
                    select_hyp |-> "none", t0 |-> 0]]

Snapshot == [has |-> TRUE, times |-> times, trace |-> trace,
             trajectory |-> trajectory, args |-> args]

\* sim = LV(transitions, initial, N, select_hyp=..., t0=...)
Init ==
    \E init \in Initials, n \in 0..MaxN, sel \in Selections, t0 \in 0..MaxT0 :
        /\ transitions = Transitions
        /\ select_hyp = sel
        /\ initial = init
        /\ times = NewTimes(t0)
        /\ trajectory = NewTrajectory(init)
        /\ N = n
        /\ ecology = init
        /\ theta_dex = "H1"
        /\ theta = theta_hypotheses["H1"]
        /\ t = t0
        /\ i = 1
        /\ hazards = get_hazards(init, theta_hypotheses["H1"])
        /\ transition = <<0, 0>>
        /\ pc = "ready"
        /\ trace = <<>>
        /\ evidence = NoEvidence
        /\ conditioned = FALSE
        /\ runs = 0
        /\ args = [initial |-> init, N |-> n, select_hyp |-> sel, t0 |-> t0]
        /\ last = NoRun

-----------------------------------------------------------------------------
(* LV.run *)

\* run, up to the loop: the working copy, the hypothesis, the clock
RunStart ==
    /\ pc \in {"ready", "done", "raised"}
    /\ runs < MaxRuns
    /\ \E h \in BindDiscrete(evidence, ThetaLabel, ThetaPrior(select_hyp)) :
        /\ theta_dex' = h
        /\ theta' = SelectTheta(h)
        /\ trace' = <<[label |-> ThetaLabel, value |-> h]>>
    /\ ecology' = initial
    /\ t' = times[1]
    /\ i' = 1
    /\ pc' = LoopPc(1, N)
    /\ runs' = runs + 1
    /\ last' = IF pc = "done" THEN Snapshot
               ELSE IF pc = "raised" THEN NoRun ELSE last
    /\ UNCHANGED <<transitions, select_hyp, initial, times, trajectory, N,
                   hazards, transition, evidence, conditioned, args>>

\* one iteration, first half: the hazards and the event
StepEvent ==
    /\ pc = "loop"
    /\ LET hz == get_hazards(ecology, theta)
           lbl == Label("event", i)
       IN  /\ hazards' = hz
           /\ \E e \in BindDiscrete(evidence, lbl, hz) :
                /\ transition' = transitions[e]
                /\ trace' = Append(trace, [label |-> lbl, value |-> e])
    /\ pc' = "event"
    /\ UNCHANGED <<transitions, select_hyp, initial, times, trajectory, N,
                   ecology, theta_dex, theta, t, i, evidence, conditioned,
                   runs, args, last>>

\* the event's bind raises: run is left with what it recorded so far
StepEventRaises ==
    /\ pc = "loop"
    /\ LET hz == get_hazards(ecology, theta)
       IN  /\ hazards' = hz
           /\ DiscreteRaises(evidence, Label("event", i), hz)
    /\ pc' = "raised"
    /\ UNCHANGED <<transitions, select_hyp, initial, times, trajectory, N,
                   ecology, theta_dex, theta, t, i, transition, trace,
                   evidence, conditioned, runs, args, last>>

\* self.initial after the working population is assigned eco, were the two one
\* object
InitialAfterUpdate_aliased(init, eco) == eco

\* self.initial after the working population is assigned eco: run works on
\* deepcopy(self.initial), an object of its own
InitialAfterUpdate(init, eco) == init

\* one iteration, second half: the waiting time, the update, the appends
StepTime ==
    /\ pc = "event"
    /\ LET lbl == Label("t", i)
       IN  \E w \in BindExponential(evidence, lbl, Sum(hazards)) :
            /\ t' = t + w
            /\ times' = Append(times, t + w)
            /\ trace' = Append(trace, [label |-> lbl, value |-> w])
    /\ ecology' = NextEcology(ecology, transition)
    /\ initial' = InitialAfterUpdate(initial, NextEcology(ecology, transition))
    /\ trajectory' =
         [prey |-> Append(trajectory.prey, NextEcology(ecology, transition).prey),
          pred |-> Append(trajectory.pred, NextEcology(ecology, transition).pred)]
    /\ i' = i + 1
    /\ pc' = LoopPc(i + 1, N)
    /\ UNCHANGED <<transitions, select_hyp, N, theta_dex, theta, hazards,
                   transition, evidence, conditioned, runs, args, last>>

\* the waiting time's bind raises
StepTimeRaises ==
    /\ pc = "event"
    /\ ExponentialRaises(evidence, Label("t", i), Sum(hazards))
    /\ pc' = "raised"
    /\ UNCHANGED <<transitions, select_hyp, initial, times, trajectory, N,
                   ecology, theta_dex, theta, t, i, hazards, transition,
                   trace, evidence, conditioned, runs, args, last>>

-----------------------------------------------------------------------------
(* The inference session *)

\* trace = sim.generate(); evidence = ...;
\* conditioned_sim = Condition(LV, evidence)(transitions, initial, N)
Condition ==
    /\ ~conditioned
    /\ pc = "done"
    /\ runs = 1
    /\ evidence' = Evidence(trace)
    /\ conditioned' = TRUE
    /\ last' = Snapshot
    /\ select_hyp' = "none"
    /\ initial' = args.initial
    /\ times' = NewTimes(args.t0)
    /\ trajectory' = NewTrajectory(args.initial)
    /\ args' = [args EXCEPT !.select_hyp = "none"]
    /\ pc' = "ready"
    /\ runs' = 0
    /\ trace' = <<>>
    /\ UNCHANGED <<transitions, N, ecology, theta_dex, theta, t, i, hazards,
                   transition>>

Next ==
    \/ RunStart
    \/ StepEvent
    \/ StepEventRaises
    \/ StepTime
    \/ StepTimeRaises
    \/ Condition

Spec == Init /\ [][Next]_vars

\* the statements of a run in progress
RunStep == StepEvent \/ StepEventRaises \/ StepTime \/ StepTimeRaises

\* run is sequential code with nothing to wait for: a run in progress goes on
LiveSpec == Spec /\ WF_vars(RunStep)

-----------------------------------------------------------------------------
(* What a run surfaces to its caller *)

\* the exception a run was left by: only a failing env.bind raises
Signal == IF pc = "raised" THEN "Exception" ELSE "none"

NonNegative(pop) == pop.prey >= 0 /\ pop.pred >= 0

-----------------------------------------------------------------------------
(* Properties *)

\* C1: from a non-negative initial population, under every hypothesis, every
\* entry of the 'prey' and 'pred' sequences is >= 0, at every step of a run.
C1_EntriesNonNegative ==
    NonNegative(args.initial) =>
        /\ \A k \in 1..Len(trajectory.prey) : trajectory.prey[k] >= 0
        /\ \A k \in 1..Len(trajectory.pred) : trajectory.pred[k] >= 0

\* a step from a non-negative population whose delta led below zero: pred_dies
\* was applied to pred = 0 (its hazard was 0) and the entry recorded is 0
C1_ClampActed ==
    /\ NonNegative(args.initial)
    /\ pc \in {"loop", "done"}
    /\ i >= 2
    /\ hazards.pred_dies = 0
    /\ transition = <<0, -1>>
    /\ trajectory.pred[Len(trajectory.pred)] = 0

\* C2: after one run of a freshly constructed simulator with step count
\* N >= 1 that was not left early, times, 'prey' and 'pred' have exactly N
\* entries each, and entry 0 is t0 and the initial population.
C2_FreshRunLengths ==
    (pc = "done" /\ runs = 1 /\ N >= 1) =>
        /\ Len(times) = N
        /\ Len(trajectory.prey) = N
        /\ Len(trajectory.pred) = N
        /\ times[1] = args.t0
        /\ trajectory.prey[1] = args.initial.prey
        /\ trajectory.pred[1] = args.initial.pred

\* a first run of three entries from a nonzero t0 has completed
C2_FreshRunDone ==
    /\ pc = "done"
    /\ runs = 1
    /\ N >= 3
    /\ args.t0 > 0
    /\ Len(trace) = 1 + 2 * (N - 1)

\* C3: the time sequence is non-decreasing: times[k-1] <= times[k] for every
\* pair of consecutive entries (every waiting time drawn is >= 0).
C3_TimesNonDecreasing ==
    NonNegative(args.initial) =>
        \A k \in 2..Len(times) : times[k - 1] <= times[k]

\* C4: for a non-negative state and a positive theta the hazards are
\* theta.spawn_prey*prey, theta.prey2pred*prey*pred, theta.pred_dies*pred; each
\* is >= 0 and is 0 when a reactant it needs is 0; (50,100) under H1 gives
\* 50, 25, 60 (here in thousandths) with total 135.
C4_Hazards ==
    (pc = "event" /\ NonNegative(ecology)) =>
        /\ hazards.spawn_prey = theta.spawn_prey * ecology.prey
        /\ hazards.prey2pred = theta.prey2pred * ecology.prey * ecology.pred
        /\ hazards.pred_dies = theta.pred_dies * ecology.pred
        /\ \A e \in Events : hazards[e] >= 0
        /\ ecology.prey = 0 => hazards.spawn_prey = 0 /\ hazards.prey2pred = 0
        /\ ecology.pred = 0 => hazards.prey2pred = 0 /\ hazards.pred_dies = 0
        /\ (ecology = NotebookInitial /\ theta_dex = "H1") =>
              /\ hazards = [spawn_prey |-> 50000, prey2pred |-> 25000,
                            pred_dies |-> 60000]
              /\ Sum(hazards) = 135000

\* the hazards of state (0, 1) have been computed in a run from (0, 1):
\* a required reactant is missing while the other species is present
C4_HazardsComputed ==
    /\ pc = "event"
    /\ ecology = [prey |-> 0, pred |-> 1]
    /\ args.initial = [prey |-> 0, pred |-> 1]
    /\ theta_dex = "H3"
    /\ hazards.pred_dies > 0

\* C5: two runs with identical inputs (transitions, initial, N, select_hyp,
\* t0) and identical draws produce identical time, 'prey' and 'pred'
\* sequences.  `last` is the run before the current one.
C5_Determinism ==
    (/\ pc = "done"
     /\ last.has
     /\ NonNegative(args.initial)
     /\ last.args = args
     /\ last.trace = trace) =>
        /\ times = last.times
        /\ trajectory = last.trajectory

\* C6: the first run of the conditioned simulator, built from the evidence
\* of the forward run (every label but 'theta') with the same transitions,
\* initial population and N, reproduces the forward run's time and
\* population sequences, whichever hypothesis it draws for 'theta'.
C6_ConditioningRoundTrip ==
    (conditioned /\ runs = 1 /\ pc = "done") =>
        /\ times = last.times
        /\ trajectory = last.trajectory

\* the notebook's session: forward under the pinned H1 from (50, 100), the
\* replay of two steps completed under another hypothesis
C6_ReplayedUnderOtherTheta ==
    /\ conditioned
    /\ runs = 1
    /\ pc = "done"
    /\ N >= 3
    /\ args.initial = NotebookInitial
    /\ last.args.select_hyp = "H1"
    /\ theta_dex # "H1"
    /\ last.times[Len(last.times)] > last.times[1]

\* C7: after any number of runs on one instance, the time, 'prey' and 'pred'
\* sequences hold the latest run only: exactly N entries, starting from t0
\* and the initial population.
C7_LatestRunOnly ==
    (pc = "done" /\ N >= 1 /\ NonNegative(args.initial)) =>
        /\ Len(times) = N
        /\ Len(trajectory.prey) = N
        /\ Len(trajectory.pred) = N
        /\ times[1] = args.t0
        /\ trajectory.prey[1] = args.initial.prey
        /\ trajectory.pred[1] = args.initial.pred

\* C8: when the total hazard of the current state is <= 0 the run stops
\* with DegenerateStateError: neither an event is drawn from those hazards
\* nor is the run left by any other exception.
C8_DegenerateSurfaced ==
    (/\ NonNegative(args.initial)
     /\ pc \in {"event", "raised"}
     /\ Sum(hazards) <= 0) =>
        Signal = "DegenerateStateError"

\* C9: with a negative initial count a run fails with ModelError before it
\* binds anything, executes a step or records a trajectory entry.
C9_InvalidInitialFailsFast ==
    (~NonNegative(args.initial) /\ runs >= 1) =>
        /\ Signal = "ModelError"
        /\ Len(trace) = 0
        /\ Len(trajectory.prey) <= 1
        /\ Len(trajectory.pred) <= 1

\* C10: in every run 'theta' is bound exactly once, first of all labels and
\* so before any hazard is computed, and the hazards of every step are
\* computed from the rate parameters of the hypothesis bound to it.
C10_ThetaBoundOnce ==
    pc \in {"loop", "event", "done", "raised"} =>
        /\ Len(trace) >= 1
        /\ trace[1].label = ThetaLabel
        /\ \A k \in 2..Len(trace) : trace[k].label # ThetaLabel
        /\ theta_dex = trace[1].value
        /\ theta = theta_hypotheses[trace[1].value]
        /\ pc \in {"event", "raised"} =>
            LET th == theta_hypotheses[trace[1].value]
            IN  /\ hazards.spawn_prey = th.spawn_prey * ecology.prey
                /\ hazards.prey2pred = th.prey2pred * ecology.prey * ecology.pred
                /\ hazards.pred_dies = th.pred_dies * ecology.pred

\* the hazards of the second step of a run whose prior was uniform, computed
\* under the H2 drawn at the start
C10_SecondStepUnderH2 ==
    /\ pc = "event"
    /\ i = 2
    /\ select_hyp = "none"
    /\ theta_dex = "H2"
    /\ args.initial = NotebookInitial
    /\ hazards.pred_dies = 400 * ecology.pred

\* C11: with select_hyp pinned to H1, H2 or H3 the distribution bound to
\* 'theta' is one-hot (weight 1 on the pinned hypothesis, 0 on the other
\* two, sum 1; weights in ten-thousandths), so an unconditioned run always
\* uses the pinned hypothesis's rate parameters.
C11_PinnedIsOneHot ==
    select_hyp \in Hyps =>
        /\ ThetaPrior(select_hyp)[select_hyp] = 10000
        /\ \A h \in Hyps \ {select_hyp} : ThetaPrior(select_hyp)[h] = 0
        /\ ThetaPrior(select_hyp)["H1"] + ThetaPrior(select_hyp)["H2"]
             + ThetaPrior(select_hyp)["H3"] = 10000
        /\ (~conditioned /\ runs >= 1) =>
              /\ theta_dex = select_hyp
              /\ trace[1].value = select_hyp
              /\ theta = theta_hypotheses[select_hyp]

\* a run pinned to H3 has computed the hazards of its second step
C11_PinnedRunUnderH3 ==
    /\ select_hyp = "H3"
    /\ ~conditioned
    /\ pc = "event"
    /\ i = 2
    /\ hazards.spawn_prey = 1500 * ecology.prey
    /\ ecology.prey > 0

\* C12: with select_hyp "none" the prior bound to 'theta' is uniform: H1, H2
\* and H3 have the same weight and the three weights sum to 1 (10000
\* ten-thousandths).
C12_UniformPrior ==
    (select_hyp = "none" /\ runs >= 1) =>
        /\ ThetaPrior(select_hyp)["H1"] = ThetaPrior(select_hyp)["H2"]
        /\ ThetaPrior(select_hyp)["H2"] = ThetaPrior(select_hyp)["H3"]
        /\ ThetaPrior(select_hyp)["H1"] + ThetaPrior(select_hyp)["H2"]
             + ThetaPrior(select_hyp)["H3"] = 10000

\* C13: for every step k in 1..N-1 of a run, the event and the waiting time
\* are drawn from the hazards of trajectory entry k-1, entry k of each
\* species is max(0, entry k-1 + the chosen reaction's delta), and
\* times[k] = times[k-1] + the waiting time drawn at step k.  (Checked when
\* step k = i-1 has just completed; sequences are 1-based, so entry k is at
\* index k+1.)
C13_StepSemantics ==
    (pc \in {"loop", "done"} /\ i >= 2 /\ NonNegative(args.initial)) =>
        LET k == i - 1
            prev == [prey |-> trajectory.prey[k], pred |-> trajectory.pred[k]]
            ev == trace[Len(trace) - 1]
            wt == trace[Len(trace)]
        IN  /\ ev.label = Label("event", k)
            /\ wt.label = Label("t", k)
            /\ hazards.spawn_prey = theta.spawn_prey * prev.prey
            /\ hazards.prey2pred = theta.prey2pred * prev.prey * prev.pred
            /\ hazards.pred_dies = theta.pred_dies * prev.pred
            /\ transition = Transitions[ev.value]
            /\ trajectory.prey[k + 1] = Max(0, prev.prey + transition[1])
            /\ trajectory.pred[k + 1] = Max(0, prev.pred + transition[2])
            /\ times[k + 1] = times[k] + wt.value

C15_ExtinctionAbsorbing ==
    (~conditioned /\ NonNegative(args.initial)) =>
        /\ \A j, k \in 1..Len(trajectory.prey) :
              (j < k /\ trajectory.prey[j] = 0) => trajectory.prey[k] = 0
        /\ \A j, k \in 1..Len(trajectory.pred) :
              (j < k /\ trajectory.pred[j] = 0) => trajectory.pred[k] = 0
        /\ (/\ pc \in {"loop", "done"}
            /\ i >= 2
            /\ hazards.spawn_prey = 0
            /\ hazards.pred_dies > 0) =>
              /\ transition = <<0, -1>>
              /\ theta.pred_dies * (ecology.pred + 1) = hazards.pred_dies

\* the labels of a trace are, in bind order, theta, event_1, t_1, event_2,
\* t_2, ..., each bound once
TraceInOrder ==
    /\ Len(trace) >= 1 => trace[1].label = <<"theta", 0>>
    /\ \A k \in 1..MaxN :
          /\ 2 * k <= Len(trace) => trace[2 * k].label = <<"event", k>>
          /\ 2 * k + 1 <= Len(trace) => trace[2 * k + 1].label = <<"t", k>>
    /\ \A a, b \in 1..Len(trace) : a # b => trace[a].label # trace[b].label

C18_InputsUnchanged ==
    /\ initial = args.initial
    /\ N = args.N
    /\ select_hyp = args.select_hyp
    /\ transitions = Transitions

\* a run has completed whose working population moved away from the initial
\* one, and two entries were appended
C18_RunMovedWorkingCopy ==
    /\ pc = "done"
    /\ runs = 1
    /\ N = 3
    /\ ecology # initial
    /\ Len(times) = 3
    /\ Len(trajectory.prey) = 3

====
